---------------------------- MODULE Spec2Model ----------------------------
(***************************************************************************)
(* Model of build_sorter_layout.py: two JSON mappings (category -> items,  *)
(* category -> bins) are loaded, validated, packed into 9-slot bins and    *)
(* written as one CSV row per slot.                                        *)
(*                                                                         *)
(* A Python str is modelled as the sequence of its character codes, so     *)
(* that str.casefold, string comparison, parse_bin and the f-strings are   *)
(* computed rather than assumed.  A Python dict is modelled as the         *)
(* sequence of its (key, value) pairs in insertion order, keys distinct.   *)
(***************************************************************************)
EXTENDS Integers, Sequences, FiniteSets, TLC

VARIABLES
    pc,               \* position in main()
    categories,       \* dict loaded from categories.json
    layout,           \* dict loaded from category_layout.json
    all_bins,         \* list returned by generate_all_bins
    bin_to_category,  \* dict built by build_bin_to_category
    sorter,           \* dict built by build_full_sorter
    ci,               \* build_full_sorter: index of the next layout entry to fill
    bi,               \* write_exhaustive_chest_csv: index of the next bin to write
    counter,          \* write_exhaustive_chest_csv: running chest index
    header,           \* sorter_layout.csv: header row (<<>> while not written)
    rows,             \* sorter_layout.csv: data rows written so far
    stdout,           \* reports printed so far
    exit_code,        \* process exit code (-1 while running)
    error,            \* the exception that ended the run, if any
    p_items,          \* argument items of a direct call of fill_bins_for_category
    p_bins,           \* argument bins of that call
    p_out             \* its result

mainVars == <<pc, categories, layout, all_bins, bin_to_category, sorter, ci, bi,
              counter, header, rows, stdout, exit_code, error>>
packVars == <<p_items, p_bins, p_out>>
vars == <<pc, categories, layout, all_bins, bin_to_category, sorter, ci, bi,
          counter, header, rows, stdout, exit_code, error, p_items, p_bins, p_out>>

---------------------------------------------------------------------------
(* Program constants *)

BIN_CAPACITY == 9

\* main: generate_all_bins("A", "X")
START_LETTER == 65
END_LETTER == 88

ascii_uppercase == [i \in 1..26 |-> 64 + i]

\* "UNUSED"
UNUSED == <<85, 78, 85, 83, 69, 68>>

\* "categories.json", "category_layout.json" (Path.name)
CATEGORIES_JSON == "categories.json"
LAYOUT_JSON == "category_layout.json"

\* headers of write_exhaustive_chest_csv
HEADERS == <<"#", "ChestID", "Column", "Cluster", "Number", "Categories",
             "Description", "Locked", "Framed">>

---------------------------------------------------------------------------
(* Sequences and strings *)

Range(s) == {s[i] : i \in 1..Len(s)}

Min(a, b) == IF a < b THEN a ELSE b

\* Python slice s[i : j] (0-based, end exclusive, clamped to the list)
Slice(s, i, j) == SubSeq(s, Min(i, Len(s)) + 1, Min(j, Len(s)))

\* str.casefold on the characters used here: A-Z fold to a-z
CasefoldChar(c) == IF c >= 65 /\ c <= 90 THEN c + 32 ELSE c

casefold(s) == [i \in 1..Len(s) |-> CasefoldChar(s[i])]

\* Python's str "<": lexicographic on code points, a proper prefix is smaller
RECURSIVE StrLess(_, _)
StrLess(a, b) ==
    IF Len(b) = 0 THEN FALSE
    ELSE IF Len(a) = 0 THEN TRUE
    ELSE IF Head(a) < Head(b) THEN TRUE
    ELSE IF Head(a) > Head(b) THEN FALSE
    ELSE StrLess(Tail(a), Tail(b))

\* Variant: the sort key is forgotten, raw code points are compared.
RECURSIVE InsertByCodePoint(_, _)
InsertByCodePoint(x, s) ==
    IF Len(s) = 0 THEN <<x>>
    ELSE IF StrLess(x, Head(s)) THEN <<x>> \o s
    ELSE <<Head(s)>> \o InsertByCodePoint(x, Tail(s))

\* One step of a stable insertion: x goes after every element whose key is
\* not greater than its own.
RECURSIVE InsertByCasefold(_, _)
InsertByCasefold(x, s) ==
    IF Len(s) = 0 THEN <<x>>
    ELSE IF StrLess(casefold(x), casefold(Head(s))) THEN <<x>> \o s
    ELSE <<Head(s)>> \o InsertByCasefold(x, Tail(s))

\* sorted(s, key=str.casefold): Python's sort is stable
RECURSIVE SortedCasefoldFrom(_, _)
SortedCasefoldFrom(acc, s) ==
    IF Len(s) = 0 THEN acc
    ELSE SortedCasefoldFrom(InsertByCasefold(Head(s), acc), Tail(s))

sorted_casefold(s) == SortedCasefoldFrom(<<>>, s)

\* A set in some iteration order (Python's set order is unspecified)
RECURSIVE SetToSeq(_)
SetToSeq(S) ==
    IF S = {} THEN <<>>
    ELSE LET x == CHOOSE y \in S : TRUE IN <<x>> \o SetToSeq(S \ {x})

---------------------------------------------------------------------------
(* dict helpers: a dict is a sequence of <<key, value>> with distinct keys *)

Keys(d) == {d[i][1] : i \in 1..Len(d)}

HasKey(d, k) == k \in Keys(d)

Get(d, k) == d[CHOOSE i \in 1..Len(d) : d[i][1] = k][2]

\* d[k] = v: an existing key keeps its position, a new key is appended
Put(d, k, v) ==
    IF HasKey(d, k)
    THEN [i \in 1..Len(d) |-> IF d[i][1] = k THEN <<k, v>> ELSE d[i]]
    ELSE Append(d, <<k, v>>)


---------------------------------------------------------------------------
(* Loading: load_json_no_dupe_keys, load_categories, load_layout *)

\* A file on disk: exists or not; its JSON text has a top-level value that is
\* an object ("object") or something else ("other"); an object is the
\* sequence of its key/value pairs as written, keys possibly repeated.  A
\* value is [kind, elems]: kind "list_of_str" with its elements, or "other".

NoError == [type |-> "none", file |-> "", keys |-> <<>>, bin |-> <<>>,
            n |-> 0, capacity |-> 0, bins |-> <<>>]

FileNotFoundError(file) == [NoError EXCEPT !.type = "FileNotFoundError", !.file = file]
DuplicateKeysError(file, keys) ==
    [NoError EXCEPT !.type = "ValueError:duplicate_keys", !.file = file, !.keys = keys]
TopLevelTypeError(file) == [NoError EXCEPT !.type = "TypeError:top_level", !.file = file]
ValueTypeError(file, key) ==
    [NoError EXCEPT !.type = "TypeError:value", !.file = file, !.keys = <<key>>]
OutOfRangeError(b) == [NoError EXCEPT !.type = "ValueError:out_of_range", !.bin = b]
CapacityError(n, capacity, bins) ==
    [NoError EXCEPT !.type = "ValueError:capacity", !.n = n, !.capacity = capacity,
                    !.bins = bins]
KeyError(key) == [NoError EXCEPT !.type = "KeyError", !.keys = <<key>>]
InvalidBinIdError(b) == [NoError EXCEPT !.type = "ValueError:invalid_bin_id", !.bin = b]

\* no_dupes_object_pairs_hook, lines 35-39: the keys seen twice, each time
RECURSIVE HookDupes(_, _)
HookDupes(pairs, seen) ==
    IF Len(pairs) = 0 THEN <<>>
    ELSE LET k == Head(pairs)[1] IN
         (IF k \in seen THEN <<k>> ELSE <<>>) \o HookDupes(Tail(pairs), seen \cup {k})

\* lines 42-45: unique dupes in stable order
RECURSIVE Uniq(_, _)
Uniq(d, acc) ==
    IF Len(d) = 0 THEN acc
    ELSE Uniq(Tail(d), IF Head(d) \in Range(acc) THEN acc ELSE Append(acc, Head(d)))

\* lines 35-39: obj[k] = v for each pair
RECURSIVE HookObj(_, _)
HookObj(pairs, obj) ==
    IF Len(pairs) = 0 THEN obj
    ELSE HookObj(Tail(pairs), Put(obj, Head(pairs)[1], Head(pairs)[2]))

\* lines 57-61: the first key whose value is not a list of str (0 if none).
\* A JSON object key is always a str, so the key test of line 58 never fails.
FirstBadValue(obj) ==
    IF \E i \in 1..Len(obj) : obj[i][2].kind # "list_of_str"
    THEN CHOOSE i \in 1..Len(obj) :
            /\ obj[i][2].kind # "list_of_str"
            /\ \A j \in 1..(i - 1) : obj[j][2].kind = "list_of_str"
    ELSE 0

\* load_categories / load_layout: [err, data]
load_mapping(file, name) ==
    IF ~file.exists THEN [err |-> FileNotFoundError(name), data |-> <<>>]
    ELSE IF file.top = "object" /\ HookDupes(file.pairs, {}) # <<>>
    THEN [err |-> DuplicateKeysError(name, Uniq(HookDupes(file.pairs, {}), <<>>)),
          data |-> <<>>]
    ELSE IF file.top # "object" THEN [err |-> TopLevelTypeError(name), data |-> <<>>]
    ELSE LET obj == HookObj(file.pairs, <<>>)
             bad == FirstBadValue(obj)
         IN IF bad # 0 THEN [err |-> ValueTypeError(name, obj[bad][1]), data |-> <<>>]
            ELSE [err |-> NoError,
                  data |-> [i \in 1..Len(obj) |-> <<obj[i][1], obj[i][2].elems>>]]

load_categories(file) == load_mapping(file, CATEGORIES_JSON)

load_layout(file) == load_mapping(file, LAYOUT_JSON)

---------------------------------------------------------------------------
(* Validation *)

\* validate_same_categories, lines 78-82
only_in_categories(cats, lay) == sorted_casefold(SetToSeq(Keys(cats) \ Keys(lay)))

only_in_layout(cats, lay) == sorted_casefold(SetToSeq(Keys(lay) \ Keys(cats)))

\* lines 103-108: the bins seen twice in one list, each named once
RECURSIVE DupesIn(_, _, _)
DupesIn(bins, seen, dupes) ==
    IF Len(bins) = 0 THEN dupes
    ELSE LET b == Head(bins) IN
         DupesIn(Tail(bins), seen \cup {b},
                 IF b \in seen /\ b \notin Range(dupes) THEN Append(dupes, b) ELSE dupes)

\* lines 101-110: category -> dupes, for the categories that have some
RECURSIVE CategoryDupes(_)
CategoryDupes(lay) ==
    IF Len(lay) = 0 THEN <<>>
    ELSE LET dupes == DupesIn(Head(lay)[2], {}, <<>>) IN
         (IF dupes # <<>> THEN <<<<Head(lay)[1], dupes>>>> ELSE <<>>)
            \o CategoryDupes(Tail(lay))

\* the (category, bin) pairs of a layout in iteration order
RECURSIVE LayoutPairs(_)
LayoutPairs(lay) ==
    IF Len(lay) = 0 THEN <<>>
    ELSE [i \in 1..Len(Head(lay)[2]) |-> <<Head(lay)[1], Head(lay)[2][i]>>]
            \o LayoutPairs(Tail(lay))

\* lines 113-116: bin_to_categories.setdefault(b, []).append(category)
RECURSIVE BinToCategories(_, _)
BinToCategories(pairs, acc) ==
    IF Len(pairs) = 0 THEN acc
    ELSE LET c == Head(pairs)[1]
             b == Head(pairs)[2]
         IN BinToCategories(Tail(pairs),
                Put(acc, b, IF HasKey(acc, b) THEN Append(Get(acc, b), c) ELSE <<c>>))

\* line 118
Overlaps(lay) == SelectSeq(BinToCategories(LayoutPairs(lay), <<>>),
                           LAMBDA e : Len(e[2]) > 1)

\* lines 125-127 and 132-134: the printed lines, keys and values sorted
SortedReport(d) ==
    LET ks == sorted_casefold([i \in 1..Len(d) |-> d[i][1]])
    IN [i \in 1..Len(ks) |-> <<ks[i], sorted_casefold(Get(d, ks[i]))>>]

MismatchReport(cats, lay) ==
    [kind |-> "category_mismatch",
     first |-> only_in_categories(cats, lay),
     second |-> only_in_layout(cats, lay)]

BinReport(lay) ==
    [kind |-> "invalid_bin_assignments",
     first |-> SortedReport(CategoryDupes(lay)),
     second |-> SortedReport(Overlaps(lay))]

WroteReport == [kind |-> "wrote", first |-> <<>>, second |-> <<>>]

---------------------------------------------------------------------------
(* Bin space *)

\* parse_bin: [ok, letter, cluster]
parse_bin(bin_id) ==
    IF Len(bin_id) # 2 \/ bin_id[1] \notin Range(ascii_uppercase)
                       \/ bin_id[2] \notin {49, 50}
    THEN [ok |-> FALSE, letter |-> 0, cluster |-> 0]
    ELSE [ok |-> TRUE, letter |-> bin_id[1], cluster |-> bin_id[2] - 48]

\* ascii_uppercase.index(c), 0-based
IndexOf(c) == (CHOOSE i \in 1..26 : ascii_uppercase[i] = c) - 1

\* Variant: the two clusters of a letter numbered from 0.
RECURSIVE BinsOfLettersZeroBased(_)
BinsOfLettersZeroBased(letters) ==
    IF Len(letters) = 0 THEN <<>>
    ELSE << <<Head(letters), 48>>, <<Head(letters), 49>> >>
            \o BinsOfLettersZeroBased(Tail(letters))

\* lines 156-158
RECURSIVE BinsOfLetters(_)
BinsOfLetters(letters) ==
    IF Len(letters) = 0 THEN <<>>
    ELSE << <<Head(letters), 49>>, <<Head(letters), 50>> >> \o BinsOfLetters(Tail(letters))

generate_all_bins(start_letter, end_letter) ==
    BinsOfLetters(Slice(ascii_uppercase, IndexOf(start_letter), IndexOf(end_letter) + 1))

---------------------------------------------------------------------------
(* Packing *)

\* Variant: the membership test of line 169 is left out.
RECURSIVE BinToCategoryLoopNoCheck(_, _)
BinToCategoryLoopNoCheck(map, pairs) ==
    IF Len(pairs) = 0 THEN [err |-> NoError, map |-> map]
    ELSE BinToCategoryLoopNoCheck(Put(map, Head(pairs)[2], Head(pairs)[1]), Tail(pairs))

\* build_bin_to_category, lines 167-171: [err, map]
RECURSIVE BinToCategoryLoop(_, _)
BinToCategoryLoop(map, pairs) ==
    IF Len(pairs) = 0 THEN [err |-> NoError, map |-> map]
    ELSE LET c == Head(pairs)[1]
             b == Head(pairs)[2]
         IN IF ~HasKey(map, b) THEN [err |-> OutOfRangeError(b), map |-> <<>>]
            ELSE BinToCategoryLoop(Put(map, b, c), Tail(pairs))

\* Variant: the bins are range-checked but the category is never recorded.
build_bin_to_category_unrecorded(bins, lay) ==
    LET r == BinToCategoryLoop([i \in 1..Len(bins) |-> <<bins[i], UNUSED>>],
                               LayoutPairs(lay))
    IN IF r.err.type # "none" THEN r
       ELSE [err |-> NoError, map |-> [i \in 1..Len(bins) |-> <<bins[i], UNUSED>>]]

build_bin_to_category(bins, lay) ==
    BinToCategoryLoop([i \in 1..Len(bins) |-> <<bins[i], UNUSED>>], LayoutPairs(lay))

\* Variant: each chunk is one item short while the index still advances by 9.
RECURSIVE FillLoopShortChunk(_, _, _, _)
FillLoopShortChunk(out, items_sorted, bins, i) ==
    IF Len(bins) = 0 THEN out
    ELSE LET out2 == Put(out, Head(bins), Slice(items_sorted, i, i + BIN_CAPACITY - 1))
             i2 == i + BIN_CAPACITY
         IN IF i2 >= Len(items_sorted) THEN out2
            ELSE FillLoopShortChunk(out2, items_sorted, Tail(bins), i2)

\* fill_bins_for_category, lines 189-194
RECURSIVE FillLoop(_, _, _, _)
FillLoop(out, items_sorted, bins, i) ==
    IF Len(bins) = 0 THEN out
    ELSE LET out2 == Put(out, Head(bins), Slice(items_sorted, i, i + BIN_CAPACITY))
             i2 == i + BIN_CAPACITY
         IN IF i2 >= Len(items_sorted) THEN out2
            ELSE FillLoop(out2, items_sorted, Tail(bins), i2)

\* line 188: {b: [] for b in bins}
RECURSIVE EmptyBins(_, _)
EmptyBins(bins, out) ==
    IF Len(bins) = 0 THEN out ELSE EmptyBins(Tail(bins), Put(out, Head(bins), <<>>))

\* Variant: the capacity test is >= instead of >.
fill_bins_for_category_ge(items, bins) ==
    LET items_sorted == sorted_casefold(items)
        capacity == Len(bins) * BIN_CAPACITY
    IN IF Len(items_sorted) >= capacity
       THEN [err |-> CapacityError(Len(items_sorted), capacity, bins), out |-> <<>>]
       ELSE [err |-> NoError, out |-> FillLoop(EmptyBins(bins, <<>>), items_sorted, bins, 0)]

\* fill_bins_for_category: [err, out]
fill_bins_for_category(items, bins) ==
    LET items_sorted == sorted_casefold(items)
        capacity == Len(bins) * BIN_CAPACITY
    IN IF Len(items_sorted) > capacity
       THEN [err |-> CapacityError(Len(items_sorted), capacity, bins), out |-> <<>>]
       ELSE [err |-> NoError, out |-> FillLoop(EmptyBins(bins, <<>>), items_sorted, bins, 0)]

---------------------------------------------------------------------------
(* Emission *)

Max(a, b) == IF a > b THEN a ELSE b

\* str(n) for n >= 0
RECURSIVE Str(_)
Str(n) == IF n < 10 THEN <<48 + n>> ELSE Str(n \div 10) \o <<48 + (n % 10)>>

\* Variant: the empty entries are put in front of the items.
PaddedLeft(items) == [i \in 1..Max(0, BIN_CAPACITY - Len(items)) |-> <<>>] \o items

\* line 254: items + [""] * (BIN_CAPACITY - len(items))
Padded(items) == items \o [i \in 1..Max(0, BIN_CAPACITY - Len(items)) |-> <<>>]

\* lines 257-268: the row of one slot
Row(num, bin_id, parsed, slot_num, category, desc) ==
    [num |-> num,
     chest_id |-> bin_id \o <<45>> \o Str(slot_num),
     column |-> <<parsed.letter>>,
     cluster |-> parsed.cluster,
     number |-> slot_num,
     categories |-> category,
     description |-> desc]

\* Variant: the chest index starts again at 1 in every bin.
BinRowsRestart(first, bin_id, parsed, category, items) ==
    [slot_num \in 1..BIN_CAPACITY |->
        Row(slot_num, bin_id, parsed, slot_num, category, items[slot_num])]

\* lines 256-270: the rows of one bin, the first of them numbered first
BinRows(first, bin_id, parsed, category, items) ==
    [slot_num \in 1..BIN_CAPACITY |->
        Row(first + slot_num - 1, bin_id, parsed, slot_num, category, items[slot_num])]

---------------------------------------------------------------------------
(* Inputs *)

MaxPairs == 2   \* key/value pairs written in one JSON object
MaxItems == 1   \* item entries written in categories.json, bulk lists aside
MaxBins == 2    \* bin entries written in category_layout.json

Tools == <<84, 111, 111, 108, 115>>    \* "Tools"
misc == <<109, 105, 115, 99>>          \* "misc"
CategoryNames == {Tools, misc}

A1 == <<65, 49>>
X2 == <<88, 50>>
Y1 == <<89, 49>>
A3 == <<65, 51>>
BinIds == {A1, X2, Y1, A3}

ItemNames == {<<>>, <<97>>}    \* "", "a"

SeqsUpTo(S, n) == UNION {[1..k -> S] : k \in 0..n}

\* n items "B", "a", "A", "B", "a", "A", ...
Bulk(n) == [i \in 1..n |-> <<(<<66, 97, 65>>)[((i - 1) % 3) + 1]>>]

\* lengths that exactly fill, or overflow by one, the bins a layout can give
BulkLens == {BIN_CAPACITY * k + d : k \in 1..2, d \in {0, 1}}

BulkLists == {Bulk(n) : n \in BulkLens}

ListValue(l) == [kind |-> "list_of_str", elems |-> l]
OtherValue == [kind |-> "other", elems |-> <<>>]

\* what a written pair counts towards the bound on a file's entries
PairWeight(p) == IF p[2].elems \in BulkLists THEN 0 ELSE Len(p[2].elems)

\* the sequences of at most n of the pairs, of total weight at most w
RECURSIVE PairSeqs(_, _, _)
PairSeqs(pairs, n, w) ==
    IF n = 0 THEN {<<>>}
    ELSE {<<>>} \cup
         UNION {{<<p>> \o r : r \in PairSeqs(pairs, n - 1, w - PairWeight(p))} :
                    p \in {q \in pairs : PairWeight(q) <= w}}

MissingFile == [exists |-> FALSE, top |-> "other", pairs |-> <<>>]
NotAnObject == [exists |-> TRUE, top |-> "other", pairs |-> <<>>]
ObjectFile(pairs) == [exists |-> TRUE, top |-> "object", pairs |-> pairs]

Files(values, maxWeight) ==
    {MissingFile, NotAnObject} \cup
    {ObjectFile(ps) : ps \in PairSeqs(CategoryNames \X values, MaxPairs, maxWeight)}

CategoryFiles ==
    Files({ListValue(l) : l \in SeqsUpTo(ItemNames, MaxItems) \cup BulkLists}
            \cup {OtherValue}, MaxItems)

LayoutFiles ==
    Files({ListValue(l) : l \in SeqsUpTo(BinIds, MaxBins)} \cup {OtherValue}, MaxBins)

\* what loading returns or raises, over every file
LoadedCategories == {load_categories(file) : file \in CategoryFiles}

LoadedLayouts == {load_layout(file) : file \in LayoutFiles}

---------------------------------------------------------------------------
(* main() *)

Init ==
    /\ pc = "load_categories"
    /\ categories = <<>>
    /\ layout = <<>>
    /\ all_bins = <<>>
    /\ bin_to_category = <<>>
    /\ sorter = <<>>
    /\ ci = 0
    /\ bi = 0
    /\ counter = 0
    /\ header = <<>>
    /\ rows = <<>>
    /\ stdout = <<>>
    /\ exit_code = -1
    /\ error = NoError
    /\ p_items = <<>>
    /\ p_bins = <<>>
    /\ p_out = [err |-> NoError, out |-> <<>>]

\* an exception nobody catches: traceback, exit code 1
Raise(e) == pc' = "exit" /\ error' = e /\ exit_code' = 1

\* line 277
LoadCategories ==
    /\ pc = "load_categories"
    /\ \E r \in LoadedCategories :
          IF r.err.type # "none"
          THEN Raise(r.err) /\ UNCHANGED categories
          ELSE categories' = r.data /\ pc' = "load_layout" /\ UNCHANGED <<error, exit_code>>
    /\ UNCHANGED <<layout, all_bins, bin_to_category, sorter, ci, bi, counter, header,
                   rows, stdout, packVars>>

\* line 278
LoadLayout ==
    /\ pc = "load_layout"
    /\ \E r \in LoadedLayouts :
          IF r.err.type # "none"
          THEN Raise(r.err) /\ UNCHANGED layout
          ELSE layout' = r.data /\ pc' = "validate_same_categories"
                /\ UNCHANGED <<error, exit_code>>
    /\ UNCHANGED <<categories, all_bins, bin_to_category, sorter, ci, bi, counter, header,
                   rows, stdout, packVars>>

\* Variant: the mismatch is printed but the process does not exit.
ValidateSameCategoriesNoExit ==
    /\ pc = "validate_same_categories"
    /\ LET report == MismatchReport(categories, layout) IN
       IF report.first # <<>> \/ report.second # <<>>
       THEN stdout' = Append(stdout, report)
       ELSE UNCHANGED stdout
    /\ pc' = "validate_layout_bins_unique"
    /\ UNCHANGED <<categories, layout, all_bins, bin_to_category, sorter, ci, bi, counter,
                   header, rows, exit_code, error, packVars>>

\* line 280, validate_same_categories
ValidateSameCategories ==
    /\ pc = "validate_same_categories"
    /\ LET report == MismatchReport(categories, layout) IN
       IF report.first # <<>> \/ report.second # <<>>
       THEN stdout' = Append(stdout, report) /\ exit_code' = 2 /\ pc' = "exit"
       ELSE pc' = "validate_layout_bins_unique" /\ UNCHANGED <<stdout, exit_code>>
    /\ UNCHANGED <<categories, layout, all_bins, bin_to_category, sorter, ci, bi, counter,
                   header, rows, error, packVars>>

\* line 281, validate_layout_bins_unique
ValidateLayoutBinsUnique ==
    /\ pc = "validate_layout_bins_unique"
    /\ LET report == BinReport(layout) IN
       IF report.first # <<>> \/ report.second # <<>>
       THEN stdout' = Append(stdout, report) /\ exit_code' = 3 /\ pc' = "exit"
       ELSE pc' = "generate_all_bins" /\ UNCHANGED <<stdout, exit_code>>
    /\ UNCHANGED <<categories, layout, all_bins, bin_to_category, sorter, ci, bi, counter,
                   header, rows, error, packVars>>

\* line 283: generate_all_bins("A", "X")
AllBinsOfMain == generate_all_bins(START_LETTER, END_LETTER)

GenerateAllBins ==
    /\ pc = "generate_all_bins"
    /\ all_bins' = AllBinsOfMain
    /\ pc' = "build_bin_to_category"
    /\ UNCHANGED <<categories, layout, bin_to_category, sorter, ci, bi, counter, header,
                   rows, stdout, exit_code, error, packVars>>

\* build_full_sorter, line 211
BuildBinToCategory ==
    /\ pc = "build_bin_to_category"
    /\ LET r == build_bin_to_category(all_bins, layout) IN
       IF r.err.type # "none"
       THEN Raise(r.err) /\ UNCHANGED bin_to_category
       ELSE bin_to_category' = r.map /\ pc' = "prefill" /\ UNCHANGED <<error, exit_code>>
    /\ UNCHANGED <<categories, layout, all_bins, sorter, ci, bi, counter, header, rows,
                   stdout, packVars>>

\* build_full_sorter, lines 214-216
PrefillSorter ==
    /\ pc = "prefill"
    /\ sorter' = [i \in 1..Len(all_bins) |->
                    <<all_bins[i],
                      [category |-> Get(bin_to_category, all_bins[i]), items |-> <<>>]>>]
    /\ ci' = 1
    /\ pc' = IF Len(layout) = 0 THEN "write_open" ELSE "fill_category"
    /\ UNCHANGED <<categories, layout, all_bins, bin_to_category, bi, counter, header,
                   rows, stdout, exit_code, error, packVars>>

\* lines 221-222: sorter[b]["items"] = filled.get(b, [])
RECURSIVE AssignItems(_, _, _)
AssignItems(s, filled, bins) ==
    IF Len(bins) = 0 THEN s
    ELSE LET b == Head(bins) IN
         AssignItems(Put(s, b, [Get(s, b) EXCEPT
                                   !.items = IF HasKey(filled, b) THEN Get(filled, b)
                                             ELSE <<>>]),
                     filled, Tail(bins))

\* build_full_sorter, lines 219-222: one iteration of the loop over layout.items()
FillCategory ==
    /\ pc = "fill_category"
    /\ LET category == layout[ci][1]
           bins == layout[ci][2]
       IN IF ~HasKey(categories, category)
          THEN Raise(KeyError(category)) /\ UNCHANGED <<sorter, ci>>
          ELSE LET filled == fill_bins_for_category(Get(categories, category), bins) IN
               IF filled.err.type # "none"
               THEN Raise(filled.err) /\ UNCHANGED <<sorter, ci>>
               ELSE IF \E b \in Range(bins) : ~HasKey(sorter, b)
               THEN Raise(KeyError(CHOOSE b \in Range(bins) : ~HasKey(sorter, b)))
                      /\ UNCHANGED <<sorter, ci>>
               ELSE /\ sorter' = AssignItems(sorter, filled.out, bins)
                    /\ ci' = ci + 1
                    /\ pc' = IF ci = Len(layout) THEN "write_open" ELSE "fill_category"
                    /\ UNCHANGED <<error, exit_code>>
    /\ UNCHANGED <<categories, layout, all_bins, bin_to_category, bi, counter, header,
                   rows, stdout, packVars>>

\* write_exhaustive_chest_csv, lines 237-245: the file is opened (truncated)
\* and the header row written
WriteOpen ==
    /\ pc = "write_open"
    /\ header' = HEADERS
    /\ rows' = <<>>
    /\ counter' = 1
    /\ bi' = 1
    /\ pc' = IF Len(all_bins) = 0 THEN "print_wrote" ELSE "write_bin"
    /\ UNCHANGED <<categories, layout, all_bins, bin_to_category, sorter, ci, stdout,
                   exit_code, error, packVars>>

\* lines 247-270: one iteration of the loop over all_bins
WriteBin ==
    /\ pc = "write_bin"
    /\ LET bin_id == all_bins[bi]
           parsed == parse_bin(bin_id)
       IN IF ~parsed.ok
          THEN Raise(InvalidBinIdError(bin_id)) /\ UNCHANGED <<rows, counter, bi>>
          ELSE IF ~HasKey(sorter, bin_id)
          THEN Raise(KeyError(bin_id)) /\ UNCHANGED <<rows, counter, bi>>
          ELSE LET category == Get(sorter, bin_id).category
                   items == Padded(Get(sorter, bin_id).items)
               IN /\ rows' = rows \o BinRows(counter, bin_id, parsed, category, items)
                  /\ counter' = counter + BIN_CAPACITY
                  /\ bi' = bi + 1
                  /\ pc' = IF bi = Len(all_bins) THEN "print_wrote" ELSE "write_bin"
                  /\ UNCHANGED <<error, exit_code>>
    /\ UNCHANGED <<categories, layout, all_bins, bin_to_category, sorter, ci, header,
                   stdout, packVars>>

\* line 272, and main returns
PrintWrote ==
    /\ pc = "print_wrote"
    /\ stdout' = Append(stdout, WroteReport)
    /\ exit_code' = 0
    /\ pc' = "done"
    /\ UNCHANGED <<categories, layout, all_bins, bin_to_category, sorter, ci, bi, counter,
                   header, rows, error, packVars>>

Next ==
    \/ LoadCategories
    \/ LoadLayout
    \/ ValidateSameCategories
    \/ ValidateLayoutBinsUnique
    \/ GenerateAllBins
    \/ BuildBinToCategory
    \/ PrefillSorter
    \/ FillCategory
    \/ WriteOpen
    \/ WriteBin
    \/ PrintWrote

Spec == Init /\ [][Next]_vars

---------------------------------------------------------------------------
(* A direct call of fill_bins_for_category, as build_full_sorter makes it:  *)
(* any list of items, and a list of distinct bins of the generated space.   *)

MaxPackItems == 3   \* items in a short list
MaxPackBins == 2    \* bins in a list

B1 == <<66, 49>>
PackBinIds == {A1, B1, X2}

PackItemNames == {<<>>, <<97>>, <<65>>, <<66>>}    \* "", "a", "A", "B"

PackBulkLens == {BIN_CAPACITY * k + d : k \in 1..MaxPackBins, d \in {-1, 0, 1}}

PackItemLists == SeqsUpTo(PackItemNames, MaxPackItems) \cup {Bulk(n) : n \in PackBulkLens}

PackBinLists == {l \in SeqsUpTo(PackBinIds, MaxPackBins) :
                    \A i, j \in 1..Len(l) : l[i] = l[j] => i = j}

InitPack ==
    /\ pc = "pack_call"
    /\ categories = <<>>
    /\ layout = <<>>
    /\ all_bins = <<>>
    /\ bin_to_category = <<>>
    /\ sorter = <<>>
    /\ ci = 0
    /\ bi = 0
    /\ counter = 0
    /\ header = <<>>
    /\ rows = <<>>
    /\ stdout = <<>>
    /\ exit_code = -1
    /\ error = NoError
    /\ p_items \in PackItemLists
    /\ p_bins \in PackBinLists
    /\ p_out = [err |-> NoError, out |-> <<>>]

PackCall ==
    /\ pc = "pack_call"
    /\ p_out' = fill_bins_for_category(p_items, p_bins)
    /\ pc' = "pack_returned"
    /\ UNCHANGED <<categories, layout, all_bins, bin_to_category, sorter, ci, bi, counter,
                   header, rows, stdout, exit_code, error, p_items, p_bins>>

NextPack == PackCall

SpecPack == InitPack /\ [][NextPack]_vars

---------------------------------------------------------------------------
(* Properties *)

Terminated == pc \in {"exit", "done"}

\* the run ended otherwise than by a normal return of main
Aborted == pc = "exit"

\* both mappings were loaded
BothLoaded ==
    /\ pc \notin {"load_categories", "load_layout", "pack_call", "pack_returned"}
    /\ error.type \notin {"FileNotFoundError", "ValueError:duplicate_keys",
                          "TypeError:top_level", "TypeError:value"}

\* A1 .. X2, stated without the generator
GeneratedSpace == {<<l, d>> : l \in 65..88, d \in {49, 50}}

CategorySetsDiffer == Keys(categories) # Keys(layout)

Occurrences(x, l) == Cardinality({i \in 1..Len(l) : l[i] = x})

CategoriesNaming(b) == {k \in 1..Len(layout) : b \in Range(layout[k][2])}

LayoutBins == UNION {Range(layout[k][2]) : k \in 1..Len(layout)}

BinConflict ==
    \/ \E k \in 1..Len(layout) : \E b \in LayoutBins : Occurrences(b, layout[k][2]) > 1
    \/ \E b \in LayoutBins : Cardinality(CategoriesNaming(b)) > 1

Printed(kind) == \E i \in 1..Len(stdout) : stdout[i].kind = kind

ReportOf(kind) == stdout[CHOOSE i \in 1..Len(stdout) : stdout[i].kind = kind]

RECURSIVE Concat(_)
Concat(ss) == IF Len(ss) = 0 THEN <<>> ELSE Head(ss) \o Concat(Tail(ss))

\* the rows written for the i-th bin of all_bins
RowsOfBin(i) == SubSeq(rows, BIN_CAPACITY * (i - 1) + 1, BIN_CAPACITY * i)

\* the items of the k-th layout entry's category
ItemsOfEntry(k) == Get(categories, layout[k][1])

(* C1: the manifest has (number of letters) x 2 x 9 data rows and the '#'  *)
(* column of the k-th row is k: the counter starts at 1, grows by 1 per    *)
(* row and never restarts between bins.                                    *)
C1_RowCounter ==
    /\ \A k \in 1..Len(rows) : rows[k].num = k
    /\ pc \in {"write_bin", "print_wrote", "done"} => counter = Len(rows) + 1
    /\ pc \in {"print_wrote", "done"} =>
            Len(rows) = (END_LETTER - START_LETTER + 1) * 2 * 9

C1_Witness ==
    /\ pc = "done"
    /\ Len(rows) > 9
    /\ \E k \in 1..Len(rows) : rows[k].description # <<>> /\ rows[k].number # rows[k].num

C3_NoPartialEmission ==
    /\ Aborted =>
          /\ header = <<>> /\ rows = <<>>
          /\ exit_code \in {1, 2, 3}
          /\ exit_code = 1 <=>
                error.type \in {"FileNotFoundError", "ValueError:duplicate_keys",
                                "TypeError:top_level", "TypeError:value",
                                "ValueError:out_of_range", "ValueError:capacity"}
          /\ exit_code = 2 <=> Printed("category_mismatch")
          /\ exit_code = 3 <=> Printed("invalid_bin_assignments")
    /\ header # <<>> =>
          /\ BothLoaded /\ ~CategorySetsDiffer /\ ~BinConflict
          /\ Range(all_bins) = GeneratedSpace
          /\ LayoutBins \subseteq GeneratedSpace
          /\ ci = Len(layout) + 1
          /\ \A k \in 1..Len(layout) :
                Len(ItemsOfEntry(k)) <= 9 * Len(layout[k][2])
          /\ pc \in {"write_bin", "print_wrote", "done"}
    /\ pc = "write_bin" => bi \in 1..Len(all_bins) /\ Len(rows) = 9 * (bi - 1)
    /\ (Terminated /\ rows # <<>>) => (pc = "done" /\ Len(rows) = 9 * Len(all_bins))
    /\ pc = "done" => (exit_code = 0 /\ error = NoError /\ header = HEADERS)

C3_Witness ==
    /\ Aborted
    /\ error.type = "ValueError:capacity"
    /\ ci = 2
    /\ \E i \in 1..Len(sorter) : sorter[i][2].items # <<>>
    /\ header = <<>>

(* C4: a category that fits gets, in its k-th bin, items 9k .. 9k+8 of its *)
(* case-insensitively sorted item list, and an empty list in every bin not *)
(* reached; the bins' lists concatenated in layout order are the sorted    *)
(* list, every occurrence of an item in exactly one slot.                  *)
C4_Chunks ==
    (pc = "pack_returned" /\ Len(p_items) <= 9 * Len(p_bins)) =>
        /\ p_out.err = NoError
        /\ Keys(p_out.out) = Range(p_bins)
        /\ LET all == Concat([k \in 1..Len(p_bins) |-> Get(p_out.out, p_bins[k])])
               n == Len(p_items)
           IN /\ Len(all) = n
              /\ \A x \in Range(p_items) \cup Range(all) :
                    Occurrences(x, all) = Occurrences(x, p_items)
              /\ \A i \in 1..(n - 1) : ~StrLess(casefold(all[i + 1]), casefold(all[i]))
              /\ \A k \in 1..Len(p_bins) :
                    Len(Get(p_out.out, p_bins[k])) = Max(0, Min(9, n - 9 * (k - 1)))

C4_Witness ==
    /\ pc = "pack_returned"
    /\ p_out.err = NoError
    /\ Len(p_bins) = 2
    /\ Len(Get(p_out.out, p_bins[1])) = 9
    /\ Len(Get(p_out.out, p_bins[2])) = 1

(* C5: packing a category fails with a capacity error iff its item count   *)
(* is greater than 9 x (number of its bins); a count equal to the capacity *)
(* succeeds and puts 9 items in every bin.  The error carries the item     *)
(* count, the capacity and the bin list, and nothing is emitted.           *)
C5_CapacityError ==
    /\ error.type = "ValueError:capacity" =>
          /\ Aborted
          /\ ci \in 1..Len(layout)
          /\ Len(ItemsOfEntry(ci)) > 9 * Len(layout[ci][2])
          /\ error.n = Len(ItemsOfEntry(ci))
          /\ error.capacity = 9 * Len(layout[ci][2])
          /\ error.bins = layout[ci][2]
          /\ header = <<>> /\ rows = <<>>
    /\ (Aborted /\ sorter # <<>>) => error.type = "ValueError:capacity"
    /\ sorter # <<>> =>
          \A k \in 1..(ci - 1) :
              /\ Len(ItemsOfEntry(k)) <= 9 * Len(layout[k][2])
              /\ Len(ItemsOfEntry(k)) = 9 * Len(layout[k][2]) =>
                    \A b \in Range(layout[k][2]) : Len(Get(sorter, b).items) = 9

C5_Witness ==
    /\ Aborted
    /\ error.type = "ValueError:capacity"
    /\ error.n = 10
    /\ error.capacity = 9
    /\ Len(error.bins) = 1

\* the lists to compare a list with: every permutation of a short list, the
\* reversal and a rotation of a long one
Rearrangements(s) ==
    IF Len(s) <= MaxPackItems
    THEN {[i \in 1..Len(s) |-> s[f[i]]] :
            f \in {g \in [1..Len(s) -> 1..Len(s)] :
                      \A i, j \in 1..Len(s) : g[i] = g[j] => i = j}}
    ELSE {[i \in 1..Len(s) |-> s[Len(s) + 1 - i]], Tail(s) \o <<Head(s)>>}

FoldedOut(out) == [i \in 1..Len(out) |-> <<out[i][1], [j \in 1..Len(out[i][2]) |->
                                                          casefold(out[i][2][j])]>>]

NoFoldTies(s) == \A i, j \in 1..Len(s) : casefold(s[i]) = casefold(s[j]) => s[i] = s[j]

(* C6, as claimed: two item lists that are permutations of each other,     *)
(* strings equal after case folding included, pack into identical per-bin  *)
(* sequences.                                                              *)
C6_OrderIndependent ==
    pc = "pack_returned" =>
        \A q \in Rearrangements(p_items) : fill_bins_for_category(q, p_bins) = p_out

(* C6, amended: the per-bin sequences of two permutations are identical    *)
(* after case folding, and identical outright when no two distinct items   *)
(* are equal after case folding; items equal after case folding keep the   *)
(* order they have in the input.                                           *)
C6_OrderIndependentUpToFolding ==
    pc = "pack_returned" =>
        /\ \A q \in Rearrangements(p_items) :
              LET r == fill_bins_for_category(q, p_bins) IN
              /\ r.err = p_out.err
              /\ FoldedOut(r.out) = FoldedOut(p_out.out)
              /\ NoFoldTies(p_items) => r = p_out
        /\ p_out.err = NoError =>
              LET all == Concat([k \in 1..Len(p_bins) |-> Get(p_out.out, p_bins[k])])
              IN \A x \in Range(p_items) :
                    SelectSeq(all, LAMBDA y : casefold(y) = casefold(x))
                        = SelectSeq(p_items, LAMBDA y : casefold(y) = casefold(x))

C6_Witness ==
    /\ pc = "pack_returned"
    /\ p_out.err = NoError
    /\ Len(p_bins) >= 1
    /\ ~NoFoldTies(p_items)
    /\ \E i, j \in 1..Len(p_items) :
          i < j /\ StrLess(casefold(p_items[j]), casefold(p_items[i]))

(* C7, as claimed: in every bin the rows with a non-empty Description are  *)
(* exactly slots 1..n, n = min(9, items assigned), also when an item is    *)
(* the empty string.                                                       *)
C7_NonEmptyCount ==
    pc = "done" =>
        \A i \in 1..Len(all_bins) :
            LET n == Min(9, Len(Get(sorter, all_bins[i]).items))
                r == RowsOfBin(i)
            IN /\ Cardinality({s \in 1..9 : r[s].description # <<>>}) = n
               /\ \A s \in 1..9 : (r[s].description # <<>>) <=> (s <= n)

(* C7, amended: slot s of a bin holds the bin's s-th assigned item for     *)
(* s <= n and the empty string above n; the rows with a non-empty          *)
(* Description are as many as the assigned items that are not the empty    *)
(* string, which is min(9, n) and slots 1..n when no assigned item is the  *)
(* empty string.                                                           *)
C7_SlotsHoldItems ==
    pc = "done" =>
        \A i \in 1..Len(all_bins) :
            LET items == Get(sorter, all_bins[i]).items
                n == Len(items)
                r == RowsOfBin(i)
            IN /\ n <= 9
               /\ \A s \in 1..9 : r[s].description = IF s <= n THEN items[s] ELSE <<>>
               /\ Cardinality({s \in 1..9 : r[s].description # <<>>})
                     = Cardinality({s \in 1..n : items[s] # <<>>})
               /\ (\A s \in 1..n : items[s] # <<>>) =>
                     \A s \in 1..9 : (r[s].description # <<>>) <=> (s <= Min(9, n))

C7_Witness ==
    /\ pc = "done"
    /\ \E i \in 1..Len(all_bins) :
          LET items == Get(sorter, all_bins[i]).items
          IN Len(items) = 1 /\ items[1] = <<>>

\* the bin check has run
BinsChecked ==
    /\ BothLoaded
    /\ pc \notin {"validate_same_categories", "validate_layout_bins_unique"}
    /\ exit_code # 2

ReportedDupes ==
    IF Printed("invalid_bin_assignments") THEN ReportOf("invalid_bin_assignments").first
    ELSE <<>>

ReportedOverlaps ==
    IF Printed("invalid_bin_assignments") THEN ReportOf("invalid_bin_assignments").second
    ELSE <<>>

(* C8: a bin is reported as duplicated within category C iff it occurs     *)
(* more than once in C's list (named once), and as assigned to multiple    *)
(* categories iff more than one category's list holds it; the check exits  *)
(* with failure iff one of the two reports is non-empty.                   *)
C8_ExactReports ==
    BinsChecked =>
        /\ \A k \in 1..Len(layout) : \A b \in LayoutBins :
              (\E e \in Range(ReportedDupes) : e[1] = layout[k][1] /\ b \in Range(e[2]))
                 <=> Occurrences(b, layout[k][2]) > 1
        /\ \A e \in Range(ReportedDupes) : \A b \in Range(e[2]) : Occurrences(b, e[2]) = 1
        /\ \A b \in LayoutBins :
              (\E e \in Range(ReportedOverlaps) : e[1] = b)
                 <=> Cardinality(CategoriesNaming(b)) > 1
        /\ (exit_code = 3) <=> (ReportedDupes # <<>> \/ ReportedOverlaps # <<>>)

\* "unassigned"
Unassigned == <<117, 110, 97, 115, 115, 105, 103, 110, 101, 100>>

\* what the rows say of the bins of the generated space, given the label of
\* a bin that no category names
BinsLabelled(sentinel) ==
    pc = "done" =>
        \A g \in GeneratedSpace :
            LET rs == {k \in 1..Len(rows) :
                          rows[k].column = <<g[1]>> /\ rows[k].cluster = g[2] - 48}
            IN /\ Cardinality(rs) = 9
               /\ {rows[k].number : k \in rs} = 1..9
               /\ \A k \in rs : rows[k].chest_id = g \o <<45, 48 + rows[k].number>>
               /\ CategoriesNaming(g) = {} =>
                     \A k \in rs : rows[k].categories = sentinel
                                      /\ rows[k].description = <<>>
               /\ \A c \in CategoriesNaming(g) :
                     \A k \in rs : rows[k].categories = layout[c][1]

(* C9, as claimed: every bin of the generated space has exactly 9 rows; a  *)
(* bin no category names carries "unassigned" and 9 empty Descriptions, a  *)
(* bin named by category C carries C on all 9 rows.                        *)
C9_UnassignedSentinel == BinsLabelled(Unassigned)

(* C9, amended: the same, with the label "UNUSED" for a bin that no        *)
(* category names.                                                         *)
C9_UnusedSentinel == BinsLabelled(<<85, 78, 85, 83, 69, 68>>)

C9_Witness ==
    /\ pc = "done"
    /\ \E k \in 1..Len(rows) : rows[k].categories = Tools /\ rows[k].description # <<>>
    /\ \E k \in 1..Len(rows) : rows[k].categories = misc
    /\ \E g \in GeneratedSpace : CategoriesNaming(g) = {}

\* the positions (k, j) of the layout's bins outside the generated space
OutOfRangeAt ==
    {kj \in UNION {{k} \X (1..Len(layout[k][2])) : k \in 1..Len(layout)} :
        layout[kj[1]][2][kj[2]] \notin GeneratedSpace}

FirstOutOfRange ==
    CHOOSE kj \in OutOfRangeAt :
        \A o \in OutOfRangeAt : kj[1] < o[1] \/ (kj[1] = o[1] /\ kj[2] <= o[2])

(* C10: a validated layout that names a bin outside the generated space    *)
(* aborts with an out-of-range error naming the bin (the first such bin in *)
(* layout order), before any category is packed and before any output;     *)
(* with every layout bin inside the space no such error is raised.         *)
C10_OutOfRange ==
    /\ error.type = "ValueError:out_of_range" =>
          /\ Aborted /\ BinsChecked /\ exit_code = 1
          /\ OutOfRangeAt # {}
          /\ error.bin = layout[FirstOutOfRange[1]][2][FirstOutOfRange[2]]
          /\ bin_to_category = <<>> /\ sorter = <<>> /\ ci = 0
          /\ header = <<>> /\ rows = <<>>
    /\ (Terminated /\ BinsChecked /\ exit_code # 3 /\ OutOfRangeAt # {}) =>
          error.type = "ValueError:out_of_range"
    /\ (BinsChecked /\ OutOfRangeAt = {}) => error.type # "ValueError:out_of_range"
    /\ pc \in {"prefill", "fill_category", "write_open", "write_bin", "print_wrote", "done"}
          => OutOfRangeAt = {}

C10_Witness ==
    /\ Aborted
    /\ error.type = "ValueError:out_of_range"
    /\ Len(layout) = 2
    /\ Cardinality(OutOfRangeAt) = 2
    /\ error.bin \in Range(layout[1][2])

===========================================================================
